---- MODULE Spec2Model ----
(***************************************************************************)
(* Model of the schema migrator of src/main.rs: the per-application        *)
(* directory of <version>_up.sql / <version>_down.sql scripts, the         *)
(* schema_migrations bookkeeping table, and the Migrator with its          *)
(* operations new, available_versions, run_migration, migrate_up_n,        *)
(* migrate_up, migrate_down_n and migrate_down.                            *)
(***************************************************************************)
EXTENDS Integers, Sequences, FiniteSets, TLC

\* Versions are 1..MaxVer (file names match [1-9][0-9]*, so they are positive).
MaxVer == 3
\* Step counts n passed to migrate_up_n / migrate_down_n range over 0..MaxN.
MaxN == 2

Versions == 1..MaxVer
Directions == {"up", "down"}

VARIABLES
    dirState,       \* the path parent/app: "absent", "dir" or "file"
    upFile,         \* [Versions -> {"none","empty","sql"}]: <v>_up.sql
    downFile,       \* [Versions -> {"none","empty","sql"}]: <v>_down.sql
    tableExists,    \* whether schema_migrations exists
    db,             \* [rows, dirty, markers]: rows of schema_migrations, the
                    \* rows flagged dirty, and the marker tables of the scripts
    initialized,    \* Migrator.initialized: a Migrator has been constructed
    last_version,   \* Migrator.last_version
    versions_up,    \* Migrator.versions_up
    versions_down,  \* Migrator.versions_down
    result          \* what the last call did and returned

vars == <<dirState, upFile, downFile, tableExists, db, initialized,
          last_version, versions_up, versions_down, result>>

----------------------------------------------------------------------------
\* Helpers on sets and sequences

Max(S) == CHOOSE x \in S : \A y \in S : y <= x

Range(s) == {s[i] : i \in 1..Len(s)}

Last(s) == s[Len(s)]

Front(s) == SubSeq(s, 1, Len(s) - 1)

RECURSIVE Reverse(_)
Reverse(s) == IF s = <<>> THEN <<>> ELSE Append(Reverse(Tail(s)), Head(s))

\* Insert x into the ascending sequence s (one step of the sort)
RECURSIVE InsertSorted(_, _)
InsertSorted(x, s) ==
    IF s = <<>> THEN <<x>>
    ELSE IF x <= Head(s) THEN <<x>> \o s
    ELSE <<Head(s)>> \o InsertSorted(x, Tail(s))

\* Vec::sort on i64: ascending
RECURSIVE Sort(_)
Sort(s) == IF s = <<>> THEN <<>> ELSE InsertSorted(Head(s), Sort(Tail(s)))

\* The versions of S listed in descending order
RECURSIVE Descending(_)
Descending(S) ==
    IF S = {} THEN <<>> ELSE <<Max(S)>> \o Descending(S \ {Max(S)})

----------------------------------------------------------------------------
\* The database: one statement executed inside a transaction

\* The content of the script <version>_<direction>.sql
ScriptFile(version, direction) ==
    IF direction = "up" THEN upFile[version] ELSE downFile[version]

\* sqlparser::parse_sql of a script: an empty file has no statements; a
\* written up script creates the marker tables of its version, a written
\* down script drops them.
ParseSql(content, version, direction) ==
    IF content = "empty" THEN <<>>
    ELSE IF direction = "up" THEN <<[kind |-> "create", v |-> version]>>
    ELSE <<[kind |-> "drop", v |-> version]>>

\* A faulty variant of get_queries: the DELETE bookkeeping statement of the
\* "down" direction is missing
get_queries_no_delete(version, direction) ==
    IF ScriptFile(version, direction) = "none"
    THEN [ok |-> FALSE, queries |-> <<>>]
    ELSE LET parsed == ParseSql(ScriptFile(version, direction), version, direction)
             book == IF direction = "up"
                     THEN <<[kind |-> "insert", v |-> version]>>
                     ELSE <<>>
         IN [ok |-> TRUE, queries |-> parsed \o book]

\* get_queries: the statements of the script followed by one bookkeeping
\* statement, INSERT for "up" and DELETE for "down"; an error when the
\* script file does not exist.
get_queries(version, direction) ==
    IF ScriptFile(version, direction) = "none"
    THEN [ok |-> FALSE, queries |-> <<>>]
    ELSE LET parsed == ParseSql(ScriptFile(version, direction), version, direction)
             book == IF direction = "up"
                     THEN <<[kind |-> "insert", v |-> version]>>
                     ELSE IF direction = "down"
                     THEN <<[kind |-> "delete", v |-> version]>>
                     ELSE <<>>
         IN [ok |-> TRUE, queries |-> parsed \o book]

\* batch_execute of one statement on the transaction's view t of the
\* database.  version is the primary key of schema_migrations, so an INSERT
\* of a version that has a row fails; the inserted row has dirty = FALSE.
Execute(t, q) ==
    CASE q.kind = "create" ->
           [ok |-> TRUE, db |-> [t EXCEPT !.markers = @ \cup {q.v}]]
      [] q.kind = "drop" ->
           [ok |-> TRUE, db |-> [t EXCEPT !.markers = @ \ {q.v}]]
      [] q.kind = "insert" ->
           IF q.v \in t.rows THEN [ok |-> FALSE, db |-> t]
           ELSE [ok |-> TRUE, db |-> [t EXCEPT !.rows = @ \cup {q.v}]]
      [] q.kind = "delete" ->
           [ok |-> TRUE,
            db |-> [t EXCEPT !.rows = @ \ {q.v}, !.dirty = @ \ {q.v}]]

\* A faulty variant of ExecuteAll: no transaction, every statement takes effect as it is
\* executed, so an error leaves the earlier statements applied
RECURSIVE ExecuteAll_autocommit(_, _, _, _, _)
ExecuteAll_autocommit(d, t, queries, i, failStmt) ==
    IF i > Len(queries)
    THEN IF failStmt = i THEN [ok |-> FALSE, db |-> t]
         ELSE [ok |-> TRUE, db |-> t]
    ELSE LET r == Execute(t, queries[i])
         IN IF failStmt = i \/ ~r.ok THEN [ok |-> FALSE, db |-> t]
            ELSE ExecuteAll_autocommit(d, r.db, queries, i + 1, failStmt)

\* The loop of run_migration over the queries, from the i-th on, inside the
\* transaction t opened on the database d.  failStmt is the statement the
\* server rejects (0: none; Len(queries) + 1: the commit).  An error drops the
\* transaction, which rolls it back: the database stays d.
RECURSIVE ExecuteAll(_, _, _, _, _)
ExecuteAll(d, t, queries, i, failStmt) ==
    IF i > Len(queries)
    THEN IF failStmt = i THEN [ok |-> FALSE, db |-> d]
         ELSE [ok |-> TRUE, db |-> t]
    ELSE LET r == Execute(t, queries[i])
         IN IF failStmt = i \/ ~r.ok THEN [ok |-> FALSE, db |-> d]
            ELSE ExecuteAll(d, r.db, queries, i + 1, failStmt)

\* run_migration(version, direction) on the database d
run_migration(d, version, direction, failStmt) ==
    LET g == get_queries(version, direction)
    IN IF ~g.ok THEN [ok |-> FALSE, db |-> d]
       ELSE ExecuteAll(d, d, g.queries, 1, failStmt)

----------------------------------------------------------------------------
\* The planner loops (the first loop of each migrate_* function)

\* A faulty variant of up_n_plan: the count test is off by one (count <= n)
RECURSIVE up_n_plan_off_by_one(_, _, _, _, _, _)
up_n_plan_off_by_one(vs, i, version, count, n, versions) ==
    IF i > Len(vs) THEN versions
    ELSE IF vs[i] > version /\ count <= n
         THEN up_n_plan_off_by_one(vs, i + 1, vs[i], count + 1, n,
                                   Append(versions, vs[i]))
         ELSE up_n_plan_off_by_one(vs, i + 1, version, count, n, versions)

\* migrate_up_n: the first n versions of versions_up above the running version
RECURSIVE up_n_plan(_, _, _, _, _, _)
up_n_plan(vs, i, version, count, n, versions) ==
    IF i > Len(vs) THEN versions
    ELSE IF vs[i] > version /\ count < n
         THEN up_n_plan(vs, i + 1, vs[i], count + 1, n, Append(versions, vs[i]))
         ELSE up_n_plan(vs, i + 1, version, count, n, versions)

\* A faulty variant of up_plan: the filter is >= instead of >
RECURSIVE up_plan_ge(_, _, _, _)
up_plan_ge(vs, i, version, versions) ==
    IF i > Len(vs) THEN versions
    ELSE IF vs[i] >= version
         THEN up_plan_ge(vs, i + 1, vs[i], Append(versions, vs[i]))
         ELSE up_plan_ge(vs, i + 1, version, versions)

\* A faulty variant of up_plan: no filter, every version of versions_up is
\* planned whatever the running version is
RECURSIVE up_plan_all(_, _, _, _)
up_plan_all(vs, i, version, versions) ==
    IF i > Len(vs) THEN versions
    ELSE up_plan_all(vs, i + 1, vs[i], Append(versions, vs[i]))

\* migrate_up: the versions of versions_up above the running version
RECURSIVE up_plan(_, _, _, _)
up_plan(vs, i, version, versions) ==
    IF i > Len(vs) THEN versions
    ELSE IF vs[i] > version
         THEN up_plan(vs, i + 1, vs[i], Append(versions, vs[i]))
         ELSE up_plan(vs, i + 1, version, versions)

\* migrate_down_n: versions_down walked from its end; i counts the entries
\* visited (enumerate), index is the 0-based position in versions_down of the
\* last version pushed.
RECURSIVE down_n_plan(_, _, _, _, _, _, _)
down_n_plan(vs, i, version, count, n, versions, index) ==
    IF i >= Len(vs) THEN [versions |-> versions, index |-> index]
    ELSE LET v == vs[Len(vs) - i]
         IN IF v <= version /\ count < n
            THEN down_n_plan(vs, i + 1, v, count + 1, n, Append(versions, v),
                             Len(vs) - 1 - i)
            ELSE down_n_plan(vs, i + 1, version, count, n, versions, index)

\* A faulty variant of down_plan: the filter is < instead of <=
RECURSIVE down_plan_lt(_, _, _, _)
down_plan_lt(vs, i, version, versions) ==
    IF i >= Len(vs) THEN versions
    ELSE LET v == vs[Len(vs) - i]
         IN IF v < version
            THEN down_plan_lt(vs, i + 1, v, Append(versions, v))
            ELSE down_plan_lt(vs, i + 1, version, versions)

\* migrate_down: versions_down walked from its end
RECURSIVE down_plan(_, _, _, _)
down_plan(vs, i, version, versions) ==
    IF i >= Len(vs) THEN versions
    ELSE LET v == vs[Len(vs) - i]
         IN IF v <= version
            THEN down_plan(vs, i + 1, v, Append(versions, v))
            ELSE down_plan(vs, i + 1, version, versions)

----------------------------------------------------------------------------
\* The execution loops (the second loop of each migrate_* function).
\* st = [db, last_version, processed, ok]: the database, the Migrator's
\* last_version, the versions whose loop body was entered, and whether the
\* function is still running without error.  fail = [at, stmt]: the server
\* rejects statement stmt of the at-th call of run_migration (at = 0: none).

FailStmtAt(fail, i) == IF fail.at = i THEN fail.stmt ELSE 0

\* The direction migrate_down_n and migrate_down pass to run_migration
DownDirection == "up"

\* A faulty variant of up_n_loop: the test flag is ignored and run_migration
\* is called for every version of the plan
RECURSIVE up_n_loop_always_run(_, _, _, _, _)
up_n_loop_always_run(versions, i, st, test, fail) ==
    IF i > Len(versions) THEN st
    ELSE LET v == versions[i]
             r == run_migration(st.db, v, "up", FailStmtAt(fail, i))
         IN IF ~r.ok
            THEN [st EXCEPT !.ok = FALSE, !.processed = Append(@, v)]
            ELSE up_n_loop_always_run(versions, i + 1,
                           [db |-> r.db, last_version |-> v,
                            processed |-> Append(st.processed, v), ok |-> TRUE],
                           test, fail)

RECURSIVE up_n_loop(_, _, _, _, _)
up_n_loop(versions, i, st, test, fail) ==
    IF i > Len(versions) THEN st
    ELSE LET v == versions[i]
             r == IF test THEN [ok |-> TRUE, db |-> st.db]
                  ELSE run_migration(st.db, v, "up", FailStmtAt(fail, i))
         IN IF ~r.ok
            THEN [st EXCEPT !.ok = FALSE, !.processed = Append(@, v)]
            ELSE up_n_loop(versions, i + 1,
                           [db |-> r.db, last_version |-> v,
                            processed |-> Append(st.processed, v), ok |-> TRUE],
                           test, fail)

\* A faulty variant of up_loop: an error of run_migration is logged and the loop goes
\* on with the next version
RECURSIVE up_loop_continue(_, _, _, _, _)
up_loop_continue(versions, i, st, test, fail) ==
    IF i > Len(versions) THEN st
    ELSE LET v == versions[i]
             r == IF test THEN [ok |-> TRUE, db |-> st.db]
                  ELSE run_migration(st.db, v, "up", FailStmtAt(fail, i))
         IN IF ~r.ok
            THEN up_loop_continue(versions, i + 1,
                                  [st EXCEPT !.ok = FALSE,
                                             !.processed = Append(@, v)],
                                  test, fail)
            ELSE up_loop_continue(versions, i + 1,
                                  [db |-> r.db, last_version |-> v,
                                   processed |-> Append(st.processed, v),
                                   ok |-> st.ok],
                                  test, fail)

RECURSIVE up_loop(_, _, _, _, _)
up_loop(versions, i, st, test, fail) ==
    IF i > Len(versions) THEN st
    ELSE LET v == versions[i]
             r == IF test THEN [ok |-> TRUE, db |-> st.db]
                  ELSE run_migration(st.db, v, "up", FailStmtAt(fail, i))
         IN IF ~r.ok
            THEN [st EXCEPT !.ok = FALSE, !.processed = Append(@, v)]
            ELSE up_loop(versions, i + 1,
                         [db |-> r.db, last_version |-> v,
                          processed |-> Append(st.processed, v), ok |-> TRUE],
                         test, fail)

RECURSIVE down_n_loop(_, _, _, _, _)
down_n_loop(versions, i, st, test, fail) ==
    IF i > Len(versions) THEN st
    ELSE LET v == versions[i]
             r == IF test THEN [ok |-> TRUE, db |-> st.db]
                  ELSE run_migration(st.db, v, DownDirection, FailStmtAt(fail, i))
         IN IF ~r.ok
            THEN [st EXCEPT !.ok = FALSE, !.last_version = v,
                            !.processed = Append(@, v)]
            ELSE down_n_loop(versions, i + 1,
                             [db |-> r.db, last_version |-> v,
                              processed |-> Append(st.processed, v), ok |-> TRUE],
                             test, fail)

RECURSIVE down_loop(_, _, _, _, _)
down_loop(versions, i, st, test, fail) ==
    IF i > Len(versions) THEN st
    ELSE LET v == versions[i]
             r == IF test THEN [ok |-> TRUE, db |-> st.db]
                  ELSE run_migration(st.db, v, DownDirection, FailStmtAt(fail, i))
         IN IF ~r.ok
            THEN [st EXCEPT !.ok = FALSE, !.last_version = v,
                            !.processed = Append(@, v)]
            ELSE down_loop(versions, i + 1,
                           [db |-> r.db, last_version |-> v,
                            processed |-> Append(st.processed, v), ok |-> TRUE],
                           test, fail)

\* A faulty variant of down_n_head: the head is the last version processed
down_n_head_last(vs, index, last) == last

\* The head migrate_down_n leaves after its loop: the entry of versions_down
\* before the index-th, or 0
down_n_head(vs, index, last) ==
    IF index > 0
    THEN IF index - 1 < Len(vs) THEN vs[index] ELSE last
    ELSE 0

----------------------------------------------------------------------------
\* What a call did and returned.  op: the function called; test, n: its
\* arguments; from: last_version when it was called; ok: Ok or Err; count: the
\* usize of Ok (-1 for Err); err: the error; processed: the versions whose
\* loop body was entered, in order; direction: the direction handed to
\* run_migration.
Res(op, test, n, from, ok, count, err, processed, direction) ==
    [op |-> op, test |-> test, n |-> n, from |-> from, ok |-> ok,
     count |-> count, err |-> err, processed |-> processed,
     direction |-> direction]

\* The versions whose transaction committed during the call
Committed(r) ==
    IF r.test THEN <<>>
    ELSE IF r.ok THEN r.processed
    ELSE IF r.err = "run_failed" THEN Front(r.processed)
    ELSE <<>>

NoFail == [at |-> 0, stmt |-> 0]

\* The statements of run_migration(version, direction) the server can reject:
\* each of its queries, and the commit
FailStmts(version, direction) ==
    1..(Len(get_queries(version, direction).queries) + 1)

\* The failures the server can inject into the calls of run_migration a
\* migrate_* function makes for its plan
Fails(versions, direction, test) ==
    IF test THEN {NoFail}
    ELSE {NoFail} \cup
         UNION {[at : {i}, stmt : FailStmts(versions[i], direction)] :
                   i \in 1..Len(versions)}

----------------------------------------------------------------------------
\* Construction

HeadRow == IF db.rows = {} THEN 0 ELSE Max(db.rows)

\* Config::dir: the path must be a directory or absent; an absent one is
\* created
Config_dir ==
    IF dirState = "file" THEN [ok |-> FALSE, dirState |-> dirState]
    ELSE [ok |-> TRUE, dirState |-> "dir"]

\* A faulty variant of Config_init: the query orders by version ascending, so the head
\* is the lowest row
Config_init_lowest ==
    LET low == CHOOSE x \in db.rows : \A y \in db.rows : x <= y
    IN IF db.rows # {} /\ low \in db.dirty
       THEN [ok |-> FALSE, last_version |-> 0]
       ELSE [ok |-> TRUE, last_version |-> IF db.rows = {} THEN 0 ELSE low]

\* A faulty variant of Config_init: the dirty flag of the highest row is not
\* looked at
Config_init_ignore_dirty == [ok |-> TRUE, last_version |-> HeadRow]

\* Config::init: CREATE TABLE IF NOT EXISTS, then the highest row; an error
\* when that row is dirty
Config_init ==
    IF db.rows # {} /\ Max(db.rows) \in db.dirty
    THEN [ok |-> FALSE, last_version |-> 0]
    ELSE [ok |-> TRUE, last_version |-> HeadRow]

\* The versions read_dir yields for one direction, in the order of the
\* listing (descending or ascending)
ReadDir(file, descending) ==
    LET S == {v \in Versions : file[v] # "none"}
    IN IF descending THEN Descending(S) ELSE Reverse(Descending(S))

\* A faulty variant of available_versions: the lists are left in the order
\* of the directory listing
available_versions_unsorted(file, descending) == ReadDir(file, descending)

\* available_versions: the versions of each direction, sorted
available_versions(file, descending) == Sort(ReadDir(file, descending))

\* Migrator::new
Migrator_new(descending) ==
    LET d == Config_dir
        c == Config_init
    IN /\ dirState' = d.dirState
       /\ tableExists' = (tableExists \/ d.ok)
       /\ initialized' = (d.ok /\ c.ok)
       /\ last_version' = IF d.ok /\ c.ok THEN c.last_version ELSE 0
       /\ versions_up' = IF d.ok /\ c.ok
                         THEN available_versions(upFile, descending) ELSE <<>>
       /\ versions_down' = IF d.ok /\ c.ok
                           THEN available_versions(downFile, descending) ELSE <<>>
       /\ result' = Res("new", FALSE, 0, last_version, d.ok /\ c.ok, -1,
                        IF ~d.ok THEN "invalid_path"
                        ELSE IF ~c.ok THEN "dirty" ELSE "none",
                        <<>>, "none")
       /\ UNCHANGED <<upFile, downFile, db>>

----------------------------------------------------------------------------
\* The operations of a constructed Migrator

StartSt == [db |-> db, last_version |-> last_version, processed |-> <<>>,
            ok |-> TRUE]

\* A direct call of run_migration(version, direction)
RunMigration(version, direction) ==
    /\ initialized
    /\ \E r \in {run_migration(db, version, direction, failStmt) :
                   failStmt \in {0} \cup FailStmts(version, direction)} :
          /\ db' = r.db
          /\ result' = Res("run", FALSE, 0, last_version, r.ok, -1,
                           IF r.ok THEN "none" ELSE "run_failed",
                           <<version>>, direction)
    /\ UNCHANGED <<dirState, upFile, downFile, tableExists, initialized,
                   last_version, versions_up, versions_down>>

migrate_up_n(n, test) ==
    /\ initialized
    /\ IF versions_up = <<>>
       THEN /\ result' = Res("up_n", test, n, last_version, FALSE, -1,
                             "no_migrations", <<>>, "up")
            /\ UNCHANGED <<db, last_version>>
       ELSE LET versions == up_n_plan(versions_up, 1, last_version, 0, n, <<>>)
                IN \E st \in {up_n_loop(versions, 1, StartSt, test, fail) :
                             fail \in Fails(versions, "up", test)} :
               /\ db' = st.db
               /\ last_version' = st.last_version
               /\ result' = Res("up_n", test, n, last_version, st.ok,
                                IF st.ok THEN Len(versions) ELSE -1,
                                IF st.ok THEN "none" ELSE "run_failed",
                                st.processed, "up")
    /\ UNCHANGED <<dirState, upFile, downFile, tableExists, initialized,
                   versions_up, versions_down>>

migrate_up(test) ==
    /\ initialized
    /\ IF versions_up = <<>>
       THEN /\ result' = Res("up", test, 0, last_version, FALSE, -1,
                             "no_migrations", <<>>, "up")
            /\ UNCHANGED <<db, last_version>>
       ELSE LET versions == up_plan(versions_up, 1, last_version, <<>>)
                IN \E st \in {up_loop(versions, 1, StartSt, test, fail) :
                             fail \in Fails(versions, "up", test)} :
               /\ db' = st.db
               /\ last_version' = st.last_version
               /\ result' = Res("up", test, 0, last_version, st.ok,
                                IF st.ok THEN Len(versions) ELSE -1,
                                IF st.ok THEN "none" ELSE "run_failed",
                                st.processed, "up")
    /\ UNCHANGED <<dirState, upFile, downFile, tableExists, initialized,
                   versions_up, versions_down>>

\* A faulty variant of migrate_down_n: the n = 0 check is missing, so a
\* request for 0 steps runs the loops with an empty plan
migrate_down_n_unchecked(n, test) ==
    /\ initialized
    /\ IF versions_down = <<>>
       THEN /\ result' = Res("down_n", test, n, last_version, FALSE, -1,
                             "no_migrations", <<>>, DownDirection)
            /\ UNCHANGED <<db, last_version>>
       ELSE LET p == down_n_plan(versions_down, 0, last_version, 0, n, <<>>, 0)
            IN \E st \in {down_n_loop(p.versions, 1, StartSt, test, fail) :
                             fail \in Fails(p.versions, DownDirection, test)} :
               /\ db' = st.db
               /\ last_version' =
                     IF st.ok
                     THEN down_n_head(versions_down, p.index, st.last_version)
                     ELSE st.last_version
               /\ result' = Res("down_n", test, n, last_version, st.ok,
                                IF st.ok THEN Len(p.versions) ELSE -1,
                                IF st.ok THEN "none" ELSE "run_failed",
                                st.processed, DownDirection)
    /\ UNCHANGED <<dirState, upFile, downFile, tableExists, initialized,
                   versions_up, versions_down>>

migrate_down_n(n, test) ==
    /\ initialized
    /\ IF versions_down = <<>>
       THEN /\ result' = Res("down_n", test, n, last_version, FALSE, -1,
                             "no_migrations", <<>>, DownDirection)
            /\ UNCHANGED <<db, last_version>>
       ELSE IF n = 0
       THEN /\ result' = Res("down_n", test, n, last_version, FALSE, -1,
                             "zero_steps", <<>>, DownDirection)
            /\ UNCHANGED <<db, last_version>>
       ELSE LET p == down_n_plan(versions_down, 0, last_version, 0, n, <<>>, 0)
                IN \E st \in {down_n_loop(p.versions, 1, StartSt, test, fail) :
                             fail \in Fails(p.versions, DownDirection, test)} :
               /\ db' = st.db
               /\ last_version' =
                     IF st.ok
                     THEN down_n_head(versions_down, p.index, st.last_version)
                     ELSE st.last_version
               /\ result' = Res("down_n", test, n, last_version, st.ok,
                                IF st.ok THEN Len(p.versions) ELSE -1,
                                IF st.ok THEN "none" ELSE "run_failed",
                                st.processed, DownDirection)
    /\ UNCHANGED <<dirState, upFile, downFile, tableExists, initialized,
                   versions_up, versions_down>>

migrate_down(test) ==
    /\ initialized
    /\ IF versions_down = <<>>
       THEN /\ result' = Res("down", test, 0, last_version, FALSE, -1,
                             "no_migrations", <<>>, DownDirection)
            /\ UNCHANGED <<db, last_version>>
       ELSE LET versions == down_plan(versions_down, 0, last_version, <<>>)
                IN \E st \in {down_loop(versions, 1, StartSt, test, fail) :
                             fail \in Fails(versions, DownDirection, test)} :
               /\ db' = st.db
               /\ last_version' = IF st.ok THEN 0 ELSE st.last_version
               /\ result' = Res("down", test, 0, last_version, st.ok,
                                IF st.ok THEN Len(versions) ELSE -1,
                                IF st.ok THEN "none" ELSE "run_failed",
                                st.processed, DownDirection)
    /\ UNCHANGED <<dirState, upFile, downFile, tableExists, initialized,
                   versions_up, versions_down>>

\* A faulty variant of new_migration: the exists() tests are missing, and
\* File::create truncates a file that exists
new_migration_no_check(ts, descending) ==
    /\ initialized
    /\ upFile' = [upFile EXCEPT ![ts] = "empty"]
    /\ downFile' = [downFile EXCEPT ![ts] = "empty"]
    /\ versions_up' = available_versions(upFile', descending)
    /\ versions_down' = available_versions(downFile', descending)
    /\ result' = Res("new_migration", FALSE, 0, last_version, TRUE, -1,
                     "none", <<ts>>, "none")
    /\ UNCHANGED <<dirState, tableExists, db, initialized, last_version>>

\* new_migration; ts is the millisecond clock read at the call.  The up file
\* is tested and created before the down file is tested, and the version
\* lists are refreshed only on the path that creates both files.
new_migration(ts, descending) ==
    /\ initialized
    /\ IF upFile[ts] # "none"
       THEN /\ result' = Res("new_migration", FALSE, 0, last_version, FALSE,
                             -1, "exists", <<ts>>, "none")
            /\ UNCHANGED <<upFile, downFile, versions_up, versions_down>>
       ELSE /\ upFile' = [upFile EXCEPT ![ts] = "empty"]
            /\ IF downFile[ts] # "none"
               THEN /\ result' = Res("new_migration", FALSE, 0, last_version,
                                     FALSE, -1, "exists", <<ts>>, "none")
                    /\ UNCHANGED <<downFile, versions_up, versions_down>>
               ELSE /\ downFile' = [downFile EXCEPT ![ts] = "empty"]
                    /\ versions_up' = available_versions(upFile', descending)
                    /\ versions_down' =
                          available_versions(downFile', descending)
                    /\ result' = Res("new_migration", FALSE, 0, last_version,
                                     TRUE, -1, "none", <<ts>>, "none")
    /\ UNCHANGED <<dirState, tableExists, db, initialized, last_version>>

----------------------------------------------------------------------------
\* The specification

NoFiles == [v \in Versions |-> "none"]

\* Before construction: the directory is absent, a file, or a directory of
\* written scripts; the bookkeeping table is absent or holds rows for some
\* versions, of which only the highest may be dirty; the marker tables of a
\* version exist iff the version has a row.
Init ==
    /\ dirState \in {"absent", "dir", "file"}
    /\ upFile \in [Versions -> {"none", "sql"}]
    /\ downFile \in [Versions -> {"none", "sql"}]
    /\ dirState # "dir" => upFile = NoFiles /\ downFile = NoFiles
    /\ tableExists \in BOOLEAN
    /\ \E rows \in SUBSET Versions :
         \E dirty \in {{}} \cup {{Max(rows)} : x \in {y \in {1} : rows # {}}} :
            /\ ~tableExists => rows = {}
            /\ db = [rows |-> rows, dirty |-> dirty, markers |-> rows]
    /\ initialized = FALSE
    /\ last_version = 0
    /\ versions_up = <<>>
    /\ versions_down = <<>>
    /\ result = Res("none", FALSE, 0, 0, TRUE, -1, "none", <<>>, "none")

\* The Migrator: construction and the four migrate_* operations, each in
\* test mode or not
Next ==
    \/ \E descending \in BOOLEAN : Migrator_new(descending)
    \/ \E n \in 0..MaxN, test \in BOOLEAN : migrate_up_n(n, test)
    \/ \E test \in BOOLEAN : migrate_up(test)
    \/ \E n \in 0..MaxN, test \in BOOLEAN : migrate_down_n(n, test)
    \/ \E test \in BOOLEAN : migrate_down(test)

Spec == Init /\ [][Next]_vars

\* The executor: construction, direct calls of run_migration in either
\* direction, and the operations that call it for a whole plan
NextExec ==
    \/ \E descending \in BOOLEAN : Migrator_new(descending)
    \/ \E version \in Versions, direction \in Directions :
          RunMigration(version, direction)
    \/ migrate_up(FALSE)
    \/ migrate_down(FALSE)

SpecExec == Init /\ [][NextExec]_vars

\* Script creation: a database without the bookkeeping table, construction,
\* and new_migration at any reading of the clock
InitNew == Init /\ ~tableExists

NextNew ==
    \/ \E descending \in BOOLEAN : Migrator_new(descending)
    \/ \E ts \in Versions, descending \in BOOLEAN : new_migration(ts, descending)

SpecNew == InitNew /\ [][NextNew]_vars

\* The planners on version lists that hold a version more than once.  The
\* lists are sorted, as available_versions leaves them, and hold up to
\* MaxLen entries; the Migrator is constructed on an empty database, its
\* last_version is any version or 0, and the migrate_* operations are called
\* in test mode, where they plan and execute nothing.
MaxLen == MaxVer + 1

SortedLists ==
    {s \in UNION {[1..k -> Versions] : k \in 0..MaxLen} :
        \A i \in 1..(Len(s) - 1) : s[i] <= s[i + 1]}

InitPlan ==
    /\ dirState = "dir"
    /\ upFile = NoFiles
    /\ downFile = NoFiles
    /\ tableExists = TRUE
    /\ db = [rows |-> {}, dirty |-> {}, markers |-> {}]
    /\ initialized = TRUE
    /\ last_version \in 0..MaxVer
    /\ versions_up \in SortedLists
    /\ versions_down = versions_up
    /\ result = Res("none", FALSE, 0, 0, TRUE, -1, "none", <<>>, "none")

NextPlan ==
    \/ \E n \in 0..MaxN : migrate_up_n(n, TRUE)
    \/ migrate_up(TRUE)
    \/ \E n \in 0..MaxN : migrate_down_n(n, TRUE)
    \/ migrate_down(TRUE)

SpecPlan == InitPlan /\ [][NextPlan]_vars

----------------------------------------------------------------------------
\* What the specification says the plans are

Min2(a, b) == IF a < b THEN a ELSE b

IsPrefix(p, s) == Len(p) <= Len(s) /\ p = SubSeq(s, 1, Len(p))

Prefix(s, k) == SubSeq(s, 1, Min2(k, Len(s)))

IsAscending(s) == \A i \in 1..(Len(s) - 1) : s[i] < s[i + 1]

\* The versions of vs strictly greater than v, in the order of vs
UpAllPlan(v, vs) == SelectSeq(vs, LAMBDA x : x > v)

\* The versions of vs that are <= v, most recent first
DownAllPlan(v, vs) == Reverse(SelectSeq(vs, LAMBDA x : x <= v))

\* The entry of vs immediately before the entry x, or 0 when x is the first
EntryBefore(vs, x) ==
    LET i == CHOOSE j \in 1..Len(vs) : vs[j] = x
    IN IF i = 1 THEN 0 ELSE vs[i - 1]

OneTo(k) == [i \in 1..k |-> i]

----------------------------------------------------------------------------
\* C1: migrate_up on a non-empty ascending versions_up processes, in
\* ascending order, exactly the versions strictly greater than the
\* last_version it was called with (a failing call a prefix of them, ending
\* with the failing version); on success it returns their number and
\* last_version is the last of them, or unchanged when there is none.
C1_UpAll ==
    (result.op = "up" /\ versions_up # <<>> /\ IsAscending(versions_up)) =>
        LET plan == UpAllPlan(result.from, versions_up)
        IN /\ IsPrefix(result.processed, plan)
           /\ IsAscending(result.processed)
           /\ result.ok =>
                /\ result.processed = plan
                /\ result.count = Len(plan)
                /\ last_version = IF plan = <<>> THEN result.from ELSE Last(plan)
           /\ ~result.ok => result.processed # <<>>

C1_Witness ==
    /\ result.op = "up" /\ result.ok /\ ~result.test
    /\ versions_up = <<1, 2, 3>>
    /\ result.from = 1
    /\ result.processed = <<2, 3>>
    /\ result.count = 2
    /\ last_version = 3
    /\ db.rows = {1, 2, 3}

\* C2: migrate_up_n(n) processes the first min(n, |plan|) versions of the
\* migrate_up plan, returns that number and leaves last_version at the last of
\* them; migrate_up_n(0) succeeds with 0 and processes nothing; from
\* last_version 0 over 15 versions migrate_up_n(11) plans the first 11.
C2_UpN ==
    /\ (result.op = "up_n" /\ versions_up # <<>>) =>
        LET plan == Prefix(UpAllPlan(result.from, versions_up), result.n)
        IN /\ IsPrefix(result.processed, plan)
           /\ result.ok =>
                /\ result.processed = plan
                /\ result.count = Min2(result.n,
                                       Len(UpAllPlan(result.from, versions_up)))
                /\ last_version = IF plan = <<>> THEN result.from ELSE Last(plan)
           /\ result.n = 0 =>
                result.ok /\ result.count = 0 /\ result.processed = <<>>
    /\ up_n_plan(OneTo(15), 1, 0, 0, 11, <<>>) = OneTo(11)

C2_Witness ==
    /\ result.op = "up_n" /\ result.ok /\ ~result.test
    /\ versions_up = <<1, 2, 3>>
    /\ result.from = 0
    /\ result.n = 2
    /\ result.processed = <<1, 2>>
    /\ result.count = 2
    /\ last_version = 2
    /\ db.rows = {1, 2}

\* C3: migrate_down on a non-empty ascending versions_down processes, most
\* recent first, exactly the versions <= the last_version it was called with
\* (a failing call a prefix of them); on success it returns their number and
\* last_version is 0.
C3_DownAll ==
    (result.op = "down" /\ versions_down # <<>> /\ IsAscending(versions_down)) =>
        LET plan == DownAllPlan(result.from, versions_down)
        IN /\ IsPrefix(result.processed, plan)
           /\ result.ok =>
                /\ result.processed = plan
                /\ result.count = Len(plan)
                /\ last_version = 0

C3_Witness ==
    /\ result.op = "down" /\ result.ok
    /\ versions_down = <<1, 2, 3>>
    /\ result.from = 2
    /\ result.processed = <<2, 1>>
    /\ result.count = 2
    /\ last_version = 0

\* C4: migrate_down_n(n), n >= 1, processes the first n versions of the
\* migrate_down plan and returns their number; when it has undone a version,
\* last_version is on success the entry of versions_down immediately before
\* the oldest version undone, or 0 when that is the first entry, and so not
\* the last version processed.
C4_DownN ==
    (result.op = "down_n" /\ versions_down # <<>> /\ result.n >= 1) =>
        LET plan == Prefix(DownAllPlan(result.from, versions_down), result.n)
        IN /\ IsPrefix(result.processed, plan)
           /\ result.ok =>
                /\ result.processed = plan
                /\ result.count = Len(plan)
                /\ plan # <<>> =>
                     /\ last_version = EntryBefore(versions_down, Last(plan))
                     /\ last_version # Last(plan)

C4_Witness ==
    /\ result.op = "down_n" /\ result.ok
    /\ versions_down = <<1, 2, 3>>
    /\ result.from = 3
    /\ result.n = 2
    /\ result.processed = <<3, 2>>
    /\ result.count = 2
    /\ last_version = 1

----------------------------------------------------------------------------
MigrateOps == {"up", "up_n", "down", "down_n"}
DownOps == {"down", "down_n"}

\* The plan of a migrate_* call, as the specification defines it
PlanOf(op, from, n, vup, vdown) ==
    CASE op = "up" -> UpAllPlan(from, vup)
      [] op = "up_n" -> Prefix(UpAllPlan(from, vup), n)
      [] op = "down" -> DownAllPlan(from, vdown)
      [] op = "down_n" -> Prefix(DownAllPlan(from, vdown), n)

HeadDirty == db.rows # {} /\ Max(db.rows) \in db.dirty

\* C5: a down operation outside test mode that processes a version hands
\* direction "down" to the executor, and the versions it commits have no row
\* in schema_migrations afterwards.
C5_DownRunsDown ==
    (result.op \in DownOps /\ ~result.test /\ result.processed # <<>>) =>
        /\ result.direction = "down"
        /\ \A v \in Range(Committed(result)) : v \notin db.rows

\* C6: a version has a row in schema_migrations iff the marker tables of its
\* up script exist, in every state; and a call of run_migration that fails
\* leaves the database as it was, as does the failing step of a plan for its
\* version.
C6_Atomic ==
    /\ [](db.rows = db.markers)
    /\ [][(result'.err = "run_failed") =>
            LET f == Last(result'.processed)
            IN /\ (f \in db'.rows) = (f \in db.rows)
               /\ (f \in db'.markers) = (f \in db.markers)
               /\ db'.dirty = db.dirty
               /\ result'.op = "run" => db' = db]_vars

C6_Witness ==
    /\ result.op = "run" /\ ~result.ok /\ result.direction = "up"
    /\ result.processed = <<2>>
    /\ upFile[2] = "sql"
    /\ db.rows = {1} /\ db.markers = {1}

\* C7: last_version is seeded from the highest row of schema_migrations, and
\* a migrate_* call outside test mode that fails leaves last_version at the
\* last version it committed, or where it was when nothing was committed:
\* never at the version whose transaction failed.
C7_NoSpeculativeHead ==
    /\ (result.op = "new" /\ result.ok) => last_version = HeadRow
    /\ (result.op \in MigrateOps /\ ~result.test /\ result.err = "run_failed") =>
          last_version = IF Committed(result) = <<>> THEN result.from
                         ELSE Last(Committed(result))

\* C8: a migrate_* call whose executor fails returns the error at once: the
\* versions it processed are the plan up to the failing version, in order and
\* without a gap, and the database holds the effects of exactly the versions
\* committed before the failure.
C8_AbortOnFailure ==
    [][(result'.op \in MigrateOps /\ result'.err = "run_failed") =>
         LET plan == PlanOf(result'.op, last_version, result'.n,
                            versions_up, versions_down)
             done == Range(Committed(result'))
         IN /\ ~result'.ok
            /\ IsPrefix(result'.processed, plan)
            /\ Len(result'.processed) = Len(Committed(result')) + 1
            /\ db'.rows = IF result'.direction = "up" THEN db.rows \cup done
                          ELSE db.rows \ done
            /\ db'.markers = IF result'.direction = "up" THEN db.markers \cup done
                             ELSE db.markers \ done
            /\ db'.dirty = db.dirty]_vars

C8_Witness ==
    /\ result.op = "up" /\ ~result.ok /\ result.err = "run_failed"
    /\ versions_up = <<1, 2, 3>>
    /\ upFile[2] = "sql" /\ upFile[3] = "sql"
    /\ result.from = 0
    /\ result.processed = <<1, 2>>
    /\ db.rows = {1}
    /\ last_version = 1

\* C9: when the highest row of schema_migrations is dirty, Migrator::new
\* fails, leaves the migration path as it was, loads no versions and does not
\* touch the rows.
C9_DirtyGuard ==
    [][(result'.op = "new" /\ HeadDirty) =>
         /\ ~result'.ok
         /\ dirState' = dirState
         /\ versions_up' = <<>> /\ versions_down' = <<>>
         /\ UNCHANGED <<upFile, downFile, db>>]_vars

\* C10 as stated: when the highest row is not dirty, Migrator::new succeeds
\* with last_version the highest version of schema_migrations (0 without
\* rows) and leaves the rows as they were.
C10_ConstructionSucceeds ==
    [][(result'.op = "new" /\ ~HeadDirty) =>
         /\ result'.ok
         /\ last_version' = HeadRow
         /\ db' = db]_vars

\* C10 amended: the same, when the migration path is absent or a directory.
C10_ConstructionSeedsHead ==
    [][(result'.op = "new" /\ ~HeadDirty /\ dirState # "file") =>
         /\ result'.ok /\ initialized'
         /\ last_version' = HeadRow
         /\ db' = db]_vars

C10_Witness ==
    /\ result.op = "new" /\ result.ok /\ initialized
    /\ db.rows = {1, 2} /\ db.dirty = {}
    /\ last_version = 2

\* C11: migrate_up and migrate_up_n on an empty versions_up, and migrate_down
\* and migrate_down_n on an empty versions_down, fail with the no-migrations
\* error; migrate_down_n(0) on a non-empty versions_down fails with the
\* zero-steps error; each of these calls processes no version and leaves
\* last_version, the versions, the scripts and the database as they were.
C11_RejectedUntouched ==
    [][LET r == result'
           empty == IF r.op \in DownOps THEN versions_down = <<>>
                    ELSE versions_up = <<>>
       IN (r.op \in MigrateOps /\ (empty \/ (r.op = "down_n" /\ r.n = 0))) =>
            /\ ~r.ok
            /\ r.err = IF empty THEN "no_migrations" ELSE "zero_steps"
            /\ r.processed = <<>>
            /\ UNCHANGED <<dirState, upFile, downFile, tableExists, db,
                           initialized, last_version, versions_up,
                           versions_down>>]_vars

C11_Witness ==
    /\ result.op = "down_n" /\ result.n = 0 /\ ~result.test
    /\ ~result.ok /\ result.err = "zero_steps"
    /\ versions_down = <<1, 2>>
    /\ last_version = 2
    /\ db.rows = {1, 2}

\* C12: a migrate_up that directly follows a successful migrate_up succeeds
\* with an empty plan and count 0 and leaves last_version and the database
\* unchanged; migrate_up and migrate_up_n report the no-migrations error only
\* when versions_up is empty, never because every version is applied.
C12_UpAllIdempotent ==
    /\ [](/\ (result.op \in {"up", "up_n"} /\ result.err = "no_migrations")
                => versions_up = <<>>
          /\ (result.op \in {"up", "up_n"} /\ versions_up # <<>>
              /\ UpAllPlan(result.from, versions_up) = <<>>)
                => (result.ok /\ result.count = 0))
    /\ [][(result.op = "up" /\ result.ok /\ result'.op = "up") =>
            /\ versions_up # <<>>
            /\ result'.ok
            /\ result'.err = "none"
            /\ result'.count = 0
            /\ result'.processed = <<>>
            /\ last_version' = last_version
            /\ db' = db]_vars

\* the second of two migrate_up calls, the first of which applied 1, 2, 3
C12_Witness ==
    /\ result.op = "up" /\ ~result.test
    /\ result.ok /\ result.count = 0 /\ result.processed = <<>>
    /\ result.from = 3
    /\ versions_up = <<1, 2, 3>>
    /\ last_version = 3
    /\ db.rows = {1, 2, 3}

\* C13: a successful run_migration(k, "up") adds exactly the row of k and the
\* marker tables of k to a database that had neither, and a successful
\* run_migration(k, "down") that directly follows it removes exactly these:
\* after the up step k has a row, after the down step k has no row and no
\* marker table, and the database is what it was before the up step.
C13_RoundTrip ==
    [][LET r == result'
           k == r.processed[1]
       IN /\ (r.op = "run" /\ r.ok /\ r.direction = "up") =>
               /\ k \notin db.rows /\ k \notin db.markers
               /\ db' = [db EXCEPT !.rows = @ \cup {k}, !.markers = @ \cup {k}]
          /\ (/\ r.op = "run" /\ r.ok /\ r.direction = "down"
              /\ result.op = "run" /\ result.ok /\ result.direction = "up"
              /\ result.processed = r.processed) =>
               /\ k \in db.rows /\ k \in db.markers
               /\ k \notin db'.rows /\ k \notin db'.markers
               /\ db' = [db EXCEPT !.rows = @ \ {k}, !.markers = @ \ {k}]]_vars

\* run_migration(2, "down") has undone version 2 on top of version 1
C13_Witness ==
    /\ result.op = "run" /\ result.ok /\ result.direction = "down"
    /\ result.processed = <<2>>
    /\ upFile[2] = "sql" /\ downFile[2] = "sql"
    /\ db.rows = {1} /\ db.markers = {1}

\* The versions that have a script in file
Present(file) == {v \in Versions : file[v] # "none"}

\* s lists exactly the versions of S, each once, in ascending order
ListsAscending(s, S) ==
    IsAscending(s) /\ Range(s) = S /\ Len(s) = Cardinality(S)

\* C14: a successful new_migration creates exactly two files, the empty up
\* and down scripts of one version ts that had neither, changes no other
\* file, and leaves versions_up and versions_down listing every version
\* that has an up (down) script, ts included, in ascending order; in a
\* directory that holds only scripts made by new_migration, after a
\* successful call both lists hold exactly one version per created pair.
C14_NewMigration ==
    /\ []((/\ result.op = "new_migration" /\ result.ok
           /\ \A v \in Versions : upFile[v] # "sql" /\ downFile[v] # "sql")
             => (/\ upFile = downFile
                 /\ versions_up = versions_down
                 /\ ListsAscending(versions_up,
                                   {v \in Versions : upFile[v] = "empty"})))
    /\ [][(result'.op = "new_migration" /\ result'.ok) =>
            LET ts == result'.processed[1]
            IN /\ upFile[ts] = "none" /\ downFile[ts] = "none"
               /\ upFile' = [upFile EXCEPT ![ts] = "empty"]
               /\ downFile' = [downFile EXCEPT ![ts] = "empty"]
               /\ ts \in Range(versions_up') /\ ts \in Range(versions_down')
               /\ ListsAscending(versions_up', Present(upFile'))
               /\ ListsAscending(versions_down', Present(downFile'))
               /\ UNCHANGED <<db, last_version, dirState>>]_vars

\* three successful calls from an empty directory, the clock read 2, 1, 3 or
\* in any other order
C14_Witness ==
    /\ result.op = "new_migration" /\ result.ok
    /\ upFile = [v \in Versions |-> IF v <= 3 THEN "empty" ELSE "none"]
    /\ downFile = upFile
    /\ versions_up = <<1, 2, 3>>
    /\ versions_down = <<1, 2, 3>>

\* C15: new_migration fails with the file-exists error whenever the up or the
\* down script of the version it allocated exists; the failing call touches
\* no other version, and every script that existed before the call has the
\* content it had.
C15_VersionExists ==
    [][(result'.op = "new_migration") =>
         LET ts == result'.processed[1]
         IN /\ (upFile[ts] # "none" \/ downFile[ts] # "none") =>
                  /\ ~result'.ok
                  /\ result'.err = "exists"
                  /\ UNCHANGED <<versions_up, versions_down>>
            /\ \A v \in Versions :
                  /\ upFile[v] # "none" => upFile'[v] = upFile[v]
                  /\ downFile[v] # "none" => downFile'[v] = downFile[v]
                  /\ v # ts => (upFile'[v] = upFile[v] /\ downFile'[v] = downFile[v])]_vars

C15_Witness ==
    /\ result.op = "new_migration" /\ ~result.ok /\ result.err = "exists"
    /\ result.processed = <<2>>
    /\ upFile[2] = "sql" /\ downFile[2] = "sql"
    /\ versions_up = <<2>>

\* C16: a migrate_* call that fails at a step of its plan returns, with the
\* error, the number of versions it completed before the failure.
C16_FailureReportsCount ==
    (result.op \in MigrateOps /\ result.err = "run_failed") =>
        result.count = Len(Committed(result))

\* The scenario of tests::mig_down_n_gt_N: 15 versions, head at the last,
\* migrate_down_n(20) and migrate_down
DownN20Of15 == down_n_plan(OneTo(15), 0, 15, 0, 20, <<>>, 0)
DownAllOf15 == down_plan(OneTo(15), 0, 15, <<>>)

\* What C17 says of a migrate_down_n call: it processes the plan migrate_down
\* computes from the same last_version, returns its length and ends at 0
SameAsDownAll ==
    LET plan == down_plan(versions_down, 0, result.from, <<>>)
    IN /\ IsPrefix(result.processed, plan)
       /\ result.err # "run_failed" =>
            /\ result.ok
            /\ result.processed = plan
            /\ result.count = Len(plan)
            /\ last_version = 0

\* C17 as stated: migrate_down_n(n) on a non-empty versions_down, with n at
\* least the number of down-versions <= last_version, does what migrate_down
\* does.
C17_DownNCoversAll ==
    (/\ result.op = "down_n" /\ versions_down # <<>>
     /\ result.n >= Len(DownAllPlan(result.from, versions_down)))
       => SameAsDownAll

\* C17, amended: migrate_down_n(n) on a non-empty versions_down, with n >= 1
\* and n at least the number of down-versions <= last_version, processes the
\* plan of migrate_down, returns the same count and ends with
\* last_version = 0; migrate_down_n(20) from the last of 15 versions plans all
\* 15, most recent first, and ends at 0.
C17_DownNCoversAllFromOne ==
    /\ (/\ result.op = "down_n" /\ versions_down # <<>>
        /\ result.n >= 1
        /\ result.n >= Len(DownAllPlan(result.from, versions_down)))
          => SameAsDownAll
    /\ DownN20Of15.versions = DownAllOf15
    /\ Len(DownN20Of15.versions) = 15
    /\ down_n_head(OneTo(15), DownN20Of15.index, 1) = 0

\* migrate_down_n(2) with one version at or below the head
C17_Witness ==
    /\ result.op = "down_n" /\ result.ok /\ result.test
    /\ versions_down = <<1, 2, 3>>
    /\ result.from = 1
    /\ result.n = 2
    /\ result.processed = <<1>>
    /\ result.count = 1
    /\ last_version = 0

\* C18: outside test mode, a migrate_* call that starts with last_version at
\* the highest row of schema_migrations (0 without rows) and returns Ok ends
\* with last_version at the highest row of schema_migrations.
C18_HeadConsistent ==
    [][(/\ result'.op \in MigrateOps /\ ~result'.test /\ result'.ok
        /\ last_version = HeadRow)
          => last_version' = HeadRow']_vars

\* The last_version a migrate_* call that started at from ends with when
\* every step of its plan succeeds
HeadAfter(op, plan, from, vdown) ==
    CASE op \in {"up", "up_n"} -> IF plan = <<>> THEN from ELSE Last(plan)
      [] op = "down" -> 0
      [] op = "down_n" -> IF plan = <<>> THEN 0
                          ELSE EntryBefore(vdown, Last(plan))

\* C19: a migrate_* call with test = TRUE leaves the database, the bookkeeping
\* table and the migration directory as they were and never fails in the
\* executor; a call that returns Ok, in test mode or not, has processed the
\* plan, returns its length and ends with the last_version the plan
\* determines, so the test call returns what the non-test call returns when
\* every step succeeds.
C19_TestModeReadOnly ==
    [][LET r == result'
           plan == PlanOf(r.op, r.from, r.n, versions_up, versions_down)
       IN /\ (r.op \in MigrateOps /\ r.test) =>
               /\ r.err # "run_failed"
               /\ r.from = last_version
               /\ UNCHANGED <<db, tableExists, dirState, upFile, downFile,
                              versions_up, versions_down, initialized>>
          /\ (r.op \in MigrateOps /\ r.ok) =>
               /\ r.processed = plan
               /\ r.count = Len(plan)
               /\ last_version' = HeadAfter(r.op, plan, r.from, versions_down)]_vars

\* migrate_up(true) from head 1: versions 2 and 3 are planned, the head moves
\* to 3 and schema_migrations still holds version 1 only
C19_Witness ==
    /\ result.op = "up" /\ result.test /\ result.ok
    /\ result.from = 1
    /\ result.processed = <<2, 3>>
    /\ result.count = 2
    /\ last_version = 3
    /\ db.rows = {1} /\ db.markers = {1}

\* C20: in every state at most one row of schema_migrations is dirty, and a
\* dirty row is the row of the highest version; no step of the Migrator
\* (construction or a migrate_* call, failed or not) makes a row dirty.
C20_DirtyOnlyHead ==
    /\ [](/\ Cardinality(db.dirty) <= 1
          /\ db.dirty \subseteq db.rows
          /\ \A v \in db.dirty : v = Max(db.rows))
    /\ [][db'.dirty \subseteq db.dirty]_vars

\* construction has refused a store whose highest row, 2, is dirty
C20_Witness ==
    /\ result.op = "new" /\ ~result.ok /\ result.err = "dirty"
    /\ db.rows = {1, 2}
    /\ db.dirty = {2}
    /\ ~initialized

C22_EmptyDownKeepsHead ==
    [][(/\ result'.op = "down_n" /\ result'.n >= 1
        /\ versions_down # <<>>
        /\ DownAllPlan(last_version, versions_down) = <<>>)
          => /\ result'.ok
             /\ result'.count = 0
             /\ last_version' = last_version
             /\ db' = db]_vars

\* C23: a new_migration that fails leaves every script file of the migration
\* directory, versions_up and versions_down as they were before the call.
C23_FailedNewMigrationNoTrace ==
    [][(result'.op = "new_migration" /\ ~result'.ok) =>
          UNCHANGED <<upFile, downFile, versions_up, versions_down>>]_vars

====
